---- MODULE Spec2Model ----
(***************************************************************************)
(* Model of the MyApp controller (pkg/controller/controller.go).           *)
(*                                                                         *)
(* Cluster state is the set of MyApp, Deployment and PodDisruptionBudget   *)
(* objects, keyed by request identity.  A Reconcile pass is split at its   *)
(* client calls (Get / Create), which are the points where passes of       *)
(* other workers may interleave.  The client may answer a call with        *)
(* NotFound / AlreadyExists according to cluster state, or with a          *)
(* transient failure while the fault budget lasts.                         *)
(***************************************************************************)
EXTENDS Integers, Sequences, FiniteSets, TLC

\* ---------------------------------------------------------------- bounds
MaxFaults == 1
MaxTriggers == 2
MaxAttempts == 2

\* ------------------------------------------------------------- constants
Workers == {"w1", "w2"}
Ids == {"demo", "other"}
Namespace == "default"

NoObj == [kind |-> "none"]
NoErr == "nil"
ErrNotFound == "NotFound"
ErrAlreadyExists == "AlreadyExists"
ErrTransient == "Transient"
ErrOwnerRef == "OwnerRefFailure"
ErrCancelled == "ContextCanceled"

reconcilationError == "error"
reconcilationSuccess == "success"
reconcilationSkipped == "skipped"
Labels == {reconcilationError, reconcilationSuccess, reconcilationSkipped}

\* MyAppSpec of each identity: replicas is an optional value (<< >> when unset)
MyAppSpecs ==
    [demo |-> [replicas |-> <<3>>, image |-> "nginx:1.25", args |-> << >>],
     other |-> [replicas |-> << >>, image |-> "busybox", args |-> <<"--verbose">>]]

\* api.MyApp as stored in the cluster
MyAppObj(name, spec) ==
    [kind |-> "MyApp", namespace |-> Namespace, name |-> name, spec |-> spec]

\* ------------------------------------------------------- resource builder
labelsForMyApp(name) == [app |-> name]

\* variant: every Deployment is given the same fixed name
createDeployment_FixedName(myApp) ==
    [kind |-> "Deployment",
     namespace |-> myApp.namespace,
     name |-> "demo",
     owner |-> NoObj,
     replicas |-> myApp.spec.replicas,
     selector |-> labelsForMyApp(myApp.name),
     templateLabels |-> [app |-> myApp.name],
     container |-> [name |-> myApp.name,
                    image |-> myApp.spec.image,
                    args |-> myApp.spec.args,
                    requests |-> [cpu |-> "100m", memory |-> "128Mi"],
                    limits |-> [cpu |-> "200m", memory |-> "256Mi"]]]

createDeployment(myApp) ==
    [kind |-> "Deployment",
     namespace |-> myApp.namespace,
     name |-> myApp.name,
     owner |-> NoObj,
     replicas |-> myApp.spec.replicas,
     selector |-> labelsForMyApp(myApp.name),
     templateLabels |-> [app |-> myApp.name],
     container |-> [name |-> myApp.name,
                    image |-> myApp.spec.image,
                    args |-> myApp.spec.args,
                    requests |-> [cpu |-> "100m", memory |-> "128Mi"],
                    limits |-> [cpu |-> "200m", memory |-> "256Mi"]]]

\* variant: the selector is built from the namespace
createPodDisruptionBudget_NamespaceLabel(myApp) ==
    [kind |-> "PodDisruptionBudget",
     namespace |-> myApp.namespace,
     name |-> myApp.name,
     owner |-> NoObj,
     maxUnavailable |-> 1,
     selector |-> labelsForMyApp(myApp.namespace)]

createPodDisruptionBudget(myApp) ==
    [kind |-> "PodDisruptionBudget",
     namespace |-> myApp.namespace,
     name |-> myApp.name,
     owner |-> NoObj,
     maxUnavailable |-> 1,
     selector |-> labelsForMyApp(myApp.name)]

\* variant: the child is handed on without an owner
SetControllerReference_NoOwner(owner, obj) == obj

\* ctrl.SetControllerReference: stamps the owner's identity on the child
SetControllerReference(owner, obj) ==
    [obj EXCEPT !.owner = [kind |-> owner.kind,
                           namespace |-> owner.namespace,
                           name |-> owner.name]]

\* ------------------------------------------------------------------ state
VARIABLES
    myApps,        \* cluster: id -> MyApp object or NoObj
    deployments,   \* cluster: id -> Deployment object or NoObj
    pdbs,          \* cluster: id -> PodDisruptionBudget object or NoObj
    queue,         \* identities waiting for a Reconcile pass
    triggers,      \* external triggers delivered so far
    faults,        \* transient client failures still to come
    ctxDone,       \* the context handed to the passes has been cancelled
    myAppReconcileCounter,  \* counter vec, by identity
    reconcileDuration,      \* histogram vec: observations by result label
    pc,            \* worker -> position in Reconcile
    req,           \* worker -> identity of the pass
    myApp,         \* worker -> MyApp read by the pass
    obj,           \* worker -> child built by the pass
    result,        \* worker -> [requeue, err, outcome] returned by the pass
    calls,         \* worker -> client calls submitted by the pass, in order
    observed,      \* worker -> duration labels recorded by the pass
    lateStart,     \* worker -> the pass began after a pass for its identity returned synced
    started,       \* id -> passes begun for the identity
    created,       \* <<id, kind>> -> successful creates by the engine
    raced,         \* id -> two passes for id have been in flight together
    faulted,       \* id -> a pass for id has met a transient failure
    last           \* id -> outcome of the pass for id that returned last

vars == <<myApps, deployments, pdbs, queue, triggers, faults, ctxDone,
          myAppReconcileCounter, reconcileDuration, pc, req, myApp, obj,
          result, calls, observed, lateStart, started, created, raced, faulted,
          last>>

cluster == <<myApps, deployments, pdbs>>
metrics == <<myAppReconcileCounter, reconcileDuration>>

Kinds == {"Deployment", "PodDisruptionBudget"}
NoReq == "none"
NoResult == [requeue |-> FALSE, err |-> NoErr, outcome |-> "none"]

MyAppChoices(i) == {NoObj, MyAppObj(i, MyAppSpecs[i])}

\* the cluster and the controller at start, with a budget of failures
InitWith(budget) ==
    /\ myApps \in {f \in [Ids -> UNION {MyAppChoices(i) : i \in Ids}] :
                     \A i \in Ids : f[i] \in MyAppChoices(i)}
    /\ deployments = [i \in Ids |-> NoObj]
    /\ pdbs = [i \in Ids |-> NoObj]
    /\ queue = {}
    /\ triggers = 0
    /\ faults = budget
    /\ ctxDone = FALSE
    /\ myAppReconcileCounter = [i \in Ids |-> 0]
    /\ reconcileDuration = [l \in Labels |-> 0]
    /\ pc = [w \in Workers |-> "idle"]
    /\ req = [w \in Workers |-> NoReq]
    /\ myApp = [w \in Workers |-> NoObj]
    /\ obj = [w \in Workers |-> NoObj]
    /\ result = [w \in Workers |-> NoResult]
    /\ calls = [w \in Workers |-> << >>]
    /\ observed = [w \in Workers |-> << >>]
    /\ lateStart = [w \in Workers |-> FALSE]
    /\ started = [i \in Ids |-> 0]
    /\ created = [k \in Ids \X Kinds |-> 0]
    /\ raced = [i \in Ids |-> FALSE]
    /\ faulted = [i \in Ids |-> FALSE]
    /\ last = [i \in Ids |-> "none"]

Init == InitWith(MaxFaults)

\* ------------------------------------------------------- client behaviour
\* client.Get: nil when the object is stored, NotFound when it is not,
\* or a transient failure while the fault budget lasts.  Under a cancelled
\* context the read is answered from the cache as before or is refused.
GetErrs(store, id) ==
    (IF store[id] # NoObj THEN {NoErr} ELSE {ErrNotFound})
        \cup (IF faults > 0 THEN {ErrTransient} ELSE {})
        \cup (IF ctxDone THEN {ErrCancelled} ELSE {})

\* variant: a create that never answers AlreadyExists
CreateErrs_NoConflict(store, id) ==
    {NoErr} \cup (IF faults > 0 THEN {ErrTransient} ELSE {})

\* client.Create: nil when the name is free, AlreadyExists when it is taken,
\* or a transient failure while the fault budget lasts.  Under a cancelled
\* context the request is refused before it reaches the cluster.
CreateErrs(store, id) ==
    IF ctxDone THEN {ErrCancelled}
    ELSE (IF store[id] = NoObj THEN {NoErr} ELSE {ErrAlreadyExists})
            \cup (IF faults > 0 THEN {ErrTransient} ELSE {})

\* ctrl.SetControllerReference fails or succeeds
OwnerRefErrs == {NoErr} \cup (IF faults > 0 THEN {ErrOwnerRef} ELSE {})

Faults == {ErrTransient, ErrOwnerRef}
IsFault(e) == e \in Faults

\* client.IgnoreNotFound(err): nil for nil and for NotFound
IgnoreNotFound(e) == IF e = ErrNotFound THEN NoErr ELSE e

\* a failure uses up the budget and is remembered for the identity
SpendFault(w, e) ==
    /\ UNCHANGED ctxDone
    /\ faults' = (IF IsFault(e) THEN faults - 1 ELSE faults)
    /\ faulted' = (IF IsFault(e) THEN [faulted EXCEPT ![req[w]] = TRUE]
                   ELSE faulted)

\* the same for a read failure followed by an owner-reference failure
SpendFaults(w, es) ==
    /\ UNCHANGED ctxDone
    /\ faults >= Cardinality(es \cap Faults)
    /\ faults' = faults - Cardinality(es \cap Faults)
    /\ faulted' = (IF es \cap Faults # {} THEN [faulted EXCEPT ![req[w]] = TRUE]
                   ELSE faulted)

\* reconcileDuration.WithLabelValues(label).Observe(...)
Observe(w, label) ==
    /\ reconcileDuration' = [reconcileDuration EXCEPT ![label] = @ + 1]
    /\ observed' = [observed EXCEPT ![w] = Append(@, label)]

NoObserve == UNCHANGED <<reconcileDuration, observed>>

\* return ctrl.Result{Requeue: rq}, err
ReturnWith(w, rq, e, what) ==
    /\ result' = [result EXCEPT ![w] = [requeue |-> rq, err |-> e, outcome |-> what]]
    /\ pc' = [pc EXCEPT ![w] = "done"]

\* a client call of the pass: operation, kind, name and the error returned
Call(w, op, kind, name, e) ==
    calls' = [calls EXCEPT ![w] =
                Append(@, [op |-> op, kind |-> kind, name |-> name, err |-> e])]

\* variant: the increment lands on a fixed label pair
IncCounter_FixedLabel(id) ==
    myAppReconcileCounter' = [myAppReconcileCounter EXCEPT !["demo"] = @ + 1]

\* myAppReconcileCounter.WithLabelValues(req.Namespace, req.Name).Inc()
IncCounter(id) ==
    myAppReconcileCounter' = [myAppReconcileCounter EXCEPT ![id] = @ + 1]

\* ---------------------------------------------------------------- actions
\* The trigger source delivers an identity (MyApp or owned-child event).
Trigger(id) ==
    /\ triggers < MaxTriggers
    /\ triggers' = triggers + 1
    /\ queue' = queue \cup {id}
    /\ UNCHANGED <<cluster, faults, ctxDone, metrics, pc, req, myApp, obj, result,
                   calls, observed, lateStart, started, created, raced, faulted,
                   last>>

\* Reconcile, lines 109-114: entry of a pass up to its first client call.
\* The passes of an identity without a MyApp fail and are re-run for ever;
\* they are followed up to MaxAttempts.
StartPass(w, id) ==
    /\ pc[w] = "idle"
    /\ id \in queue
    /\ ~ctxDone
    /\ myApps[id] # NoObj \/ myAppReconcileCounter[id] < MaxAttempts
    /\ queue' = queue \ {id}
    /\ req' = [req EXCEPT ![w] = id]
    /\ IncCounter(id)
    /\ started' = [started EXCEPT ![id] = @ + 1]
    /\ lateStart' = [lateStart EXCEPT ![w] = (last[id] = "Synced")]
    /\ raced' = [raced EXCEPT ![id] =
                    @ \/ \E v \in Workers \ {w} : pc[v] # "idle" /\ req[v] = id]
    /\ pc' = [pc EXCEPT ![w] = "getMyApp"]
    /\ UNCHANGED <<cluster, triggers, faults, ctxDone, reconcileDuration, myApp, obj,
                   result, calls, observed, created, faulted, last>>

\* Reconcile, lines 117-122: read the MyApp.
GetMyApp(w) ==
    /\ pc[w] = "getMyApp"
    /\ \E e \in GetErrs(myApps, req[w]) :
        /\ SpendFault(w, e)
        /\ Call(w, "Get", "MyApp", req[w], e)
        /\ IF e # NoErr
           THEN /\ Observe(w, reconcilationError)
                /\ ReturnWith(w, FALSE, e, "GetMyAppFailed")
                /\ UNCHANGED myApp
           ELSE /\ myApp' = [myApp EXCEPT ![w] = myApps[req[w]]]
                /\ pc' = [pc EXCEPT ![w] = "getDeployment"]
                /\ NoObserve
                /\ UNCHANGED result
    /\ UNCHANGED <<cluster, queue, triggers, myAppReconcileCounter, req, obj,
                   lateStart, started, created, raced, last>>

\* variant: a Deployment read as present is brought in line with the MyApp
GetDeployment_Sync(w) ==
    /\ pc[w] = "getDeployment"
    /\ \E e \in GetErrs(deployments, myApp[w].name) :
        /\ Call(w, "Get", "Deployment", myApp[w].name, e)
        /\ IF e # NoErr /\ IgnoreNotFound(e) = NoErr
           THEN \E oe \in OwnerRefErrs :
                /\ SpendFault(w, oe)
                /\ UNCHANGED deployments
                /\ IF oe # NoErr
                   THEN /\ Observe(w, reconcilationError)
                        /\ ReturnWith(w, FALSE, oe, "OwnerRefFailed")
                        /\ UNCHANGED obj
                   ELSE /\ obj' = [obj EXCEPT ![w] =
                              SetControllerReference(myApp[w], createDeployment(myApp[w]))]
                        /\ pc' = [pc EXCEPT ![w] = "createDeployment"]
                        /\ NoObserve
                        /\ UNCHANGED result
           ELSE /\ SpendFault(w, e)
                /\ deployments' =
                      (IF e = NoErr
                         THEN [deployments EXCEPT ![myApp[w].name] =
                                 SetControllerReference(myApp[w], createDeployment(myApp[w]))]
                         ELSE deployments)
                /\ pc' = [pc EXCEPT ![w] = "getPDB"]
                /\ NoObserve
                /\ UNCHANGED <<obj, result>>
    /\ UNCHANGED <<myApps, pdbs, queue, triggers, myAppReconcileCounter, req, myApp,
                   lateStart, started, created, raced, last>>

\* Reconcile, lines 125-140: read the Deployment; when it is reported
\* NotFound build it and attach the owner reference.
GetDeployment(w) ==
    /\ pc[w] = "getDeployment"
    /\ \E e \in GetErrs(deployments, myApp[w].name) :
        /\ Call(w, "Get", "Deployment", myApp[w].name, e)
        /\ IF e # NoErr /\ IgnoreNotFound(e) = NoErr
           THEN \E oe \in OwnerRefErrs :
                /\ SpendFault(w, oe)
                /\ IF oe # NoErr
                   THEN /\ Observe(w, reconcilationError)
                        /\ ReturnWith(w, FALSE, oe, "OwnerRefFailed")
                        /\ UNCHANGED obj
                   ELSE /\ obj' = [obj EXCEPT ![w] =
                              SetControllerReference(myApp[w], createDeployment(myApp[w]))]
                        /\ pc' = [pc EXCEPT ![w] = "createDeployment"]
                        /\ NoObserve
                        /\ UNCHANGED result
           ELSE /\ SpendFault(w, e)
                /\ pc' = [pc EXCEPT ![w] = "getPDB"]
                /\ NoObserve
                /\ UNCHANGED <<obj, result>>
    /\ UNCHANGED <<cluster, queue, triggers, myAppReconcileCounter, req, myApp,
                   lateStart, started, created, raced, last>>

\* variant: after a created Deployment the pass goes on to the
\* PodDisruptionBudget instead of returning
CreateDeployment_ThenPDB(w) ==
    /\ pc[w] = "createDeployment"
    /\ \E e \in CreateErrs(deployments, obj[w].name) :
        /\ SpendFault(w, e)
        /\ Call(w, "Create", "Deployment", obj[w].name, e)
        /\ IF e # NoErr
           THEN /\ NoObserve
                /\ ReturnWith(w, FALSE, e, "CreateDeploymentFailed")
                /\ UNCHANGED <<deployments, created>>
           ELSE /\ deployments' = [deployments EXCEPT ![obj[w].name] = obj[w]]
                /\ created' = [created EXCEPT ![<<obj[w].name, "Deployment">>] = @ + 1]
                /\ NoObserve
                /\ pc' = [pc EXCEPT ![w] = "getPDB"]
                /\ UNCHANGED result
    /\ UNCHANGED <<myApps, pdbs, queue, triggers, myAppReconcileCounter, req,
                   myApp, obj, lateStart, started, raced, last>>

\* variant: a created Deployment is returned without a requeue
CreateDeployment_NoRequeue(w) ==
    /\ pc[w] = "createDeployment"
    /\ \E e \in CreateErrs(deployments, obj[w].name) :
        /\ SpendFault(w, e)
        /\ Call(w, "Create", "Deployment", obj[w].name, e)
        /\ IF e # NoErr
           THEN /\ NoObserve
                /\ ReturnWith(w, FALSE, e, "CreateDeploymentFailed")
                /\ UNCHANGED <<deployments, created>>
           ELSE /\ deployments' = [deployments EXCEPT ![obj[w].name] = obj[w]]
                /\ created' = [created EXCEPT ![<<obj[w].name, "Deployment">>] = @ + 1]
                /\ Observe(w, reconcilationSuccess)
                /\ ReturnWith(w, FALSE, NoErr, "CreatedDeployment")
    /\ UNCHANGED <<myApps, pdbs, queue, triggers, myAppReconcileCounter, req,
                   myApp, obj, lateStart, started, raced, last>>

\* Reconcile, lines 142-149: submit the Deployment create.
CreateDeployment(w) ==
    /\ pc[w] = "createDeployment"
    /\ \E e \in CreateErrs(deployments, obj[w].name) :
        /\ SpendFault(w, e)
        /\ Call(w, "Create", "Deployment", obj[w].name, e)
        /\ IF e # NoErr
           THEN /\ NoObserve
                /\ ReturnWith(w, FALSE, e, "CreateDeploymentFailed")
                /\ UNCHANGED <<deployments, created>>
           ELSE /\ deployments' = [deployments EXCEPT ![obj[w].name] = obj[w]]
                /\ created' = [created EXCEPT ![<<obj[w].name, "Deployment">>] = @ + 1]
                /\ Observe(w, reconcilationSuccess)
                /\ ReturnWith(w, TRUE, NoErr, "CreatedDeployment")
    /\ UNCHANGED <<myApps, pdbs, queue, triggers, myAppReconcileCounter, req,
                   myApp, obj, lateStart, started, raced, last>>

\* Reconcile, lines 153-168 and 180-182: read the PodDisruptionBudget; on
\* any read error build it and attach the owner reference, else finish.
GetPDB(w) ==
    /\ pc[w] = "getPDB"
    /\ \E e \in GetErrs(pdbs, myApp[w].name) :
        /\ Call(w, "Get", "PodDisruptionBudget", myApp[w].name, e)
        /\ IF e # NoErr
           THEN \E oe \in OwnerRefErrs :
                /\ SpendFaults(w, {e, oe})
                /\ IF oe # NoErr
                   THEN /\ Observe(w, reconcilationError)
                        /\ ReturnWith(w, FALSE, oe, "OwnerRefFailed")
                        /\ UNCHANGED obj
                   ELSE /\ obj' = [obj EXCEPT ![w] =
                              SetControllerReference(myApp[w],
                                                     createPodDisruptionBudget(myApp[w]))]
                        /\ pc' = [pc EXCEPT ![w] = "createPDB"]
                        /\ NoObserve
                        /\ UNCHANGED result
           ELSE /\ UNCHANGED <<faults, ctxDone, faulted, obj>>
                /\ Observe(w, reconcilationSkipped)
                /\ ReturnWith(w, FALSE, NoErr, "Synced")
    /\ UNCHANGED <<cluster, queue, triggers, myAppReconcileCounter, req, myApp,
                   lateStart, started, created, raced, last>>

\* variant: a created PodDisruptionBudget is returned without a requeue
CreatePDB_NoRequeue(w) ==
    /\ pc[w] = "createPDB"
    /\ \E e \in CreateErrs(pdbs, obj[w].name) :
        /\ SpendFault(w, e)
        /\ Call(w, "Create", "PodDisruptionBudget", obj[w].name, e)
        /\ IF e # NoErr
           THEN /\ Observe(w, reconcilationError)
                /\ ReturnWith(w, FALSE, e, "CreatePDBFailed")
                /\ UNCHANGED <<pdbs, created>>
           ELSE /\ pdbs' = [pdbs EXCEPT ![obj[w].name] = obj[w]]
                /\ created' = [created EXCEPT ![<<obj[w].name, "PodDisruptionBudget">>] = @ + 1]
                /\ Observe(w, reconcilationSuccess)
                /\ ReturnWith(w, FALSE, NoErr, "CreatedPDB")
    /\ UNCHANGED <<myApps, deployments, queue, triggers, myAppReconcileCounter,
                   req, myApp, obj, lateStart, started, raced, last>>

\* Reconcile, lines 170-177: submit the PodDisruptionBudget create.
CreatePDB(w) ==
    /\ pc[w] = "createPDB"
    /\ \E e \in CreateErrs(pdbs, obj[w].name) :
        /\ SpendFault(w, e)
        /\ Call(w, "Create", "PodDisruptionBudget", obj[w].name, e)
        /\ IF e # NoErr
           THEN /\ Observe(w, reconcilationError)
                /\ ReturnWith(w, FALSE, e, "CreatePDBFailed")
                /\ UNCHANGED <<pdbs, created>>
           ELSE /\ pdbs' = [pdbs EXCEPT ![obj[w].name] = obj[w]]
                /\ created' = [created EXCEPT ![<<obj[w].name, "PodDisruptionBudget">>] = @ + 1]
                /\ Observe(w, reconcilationSuccess)
                /\ ReturnWith(w, TRUE, NoErr, "CreatedPDB")
    /\ UNCHANGED <<myApps, deployments, queue, triggers, myAppReconcileCounter,
                   req, myApp, obj, lateStart, started, raced, last>>

\* variant: a pass that returned an error is not delivered again
Return_ForgetError(w) ==
    /\ pc[w] = "done"
    /\ queue' = (IF result[w].requeue THEN queue \cup {req[w]} ELSE queue)
    /\ last' = [last EXCEPT ![req[w]] = result[w].outcome]
    /\ pc' = [pc EXCEPT ![w] = "idle"]
    /\ req' = [req EXCEPT ![w] = NoReq]
    /\ myApp' = [myApp EXCEPT ![w] = NoObj]
    /\ obj' = [obj EXCEPT ![w] = NoObj]
    /\ result' = [result EXCEPT ![w] = NoResult]
    /\ calls' = [calls EXCEPT ![w] = << >>]
    /\ observed' = [observed EXCEPT ![w] = << >>]
    /\ lateStart' = [lateStart EXCEPT ![w] = FALSE]
    /\ UNCHANGED <<cluster, triggers, faults, ctxDone, metrics, started, created,
                   raced, faulted>>

\* The trigger queue takes the result of the pass: the identity is
\* delivered again when the pass asked for a requeue or returned an error.
\* The locals of the pass go out of scope.
Return(w) ==
    /\ pc[w] = "done"
    /\ queue' = (IF result[w].requeue \/ result[w].err # NoErr
                 THEN queue \cup {req[w]} ELSE queue)
    /\ last' = [last EXCEPT ![req[w]] = result[w].outcome]
    /\ pc' = [pc EXCEPT ![w] = "idle"]
    /\ req' = [req EXCEPT ![w] = NoReq]
    /\ myApp' = [myApp EXCEPT ![w] = NoObj]
    /\ obj' = [obj EXCEPT ![w] = NoObj]
    /\ result' = [result EXCEPT ![w] = NoResult]
    /\ calls' = [calls EXCEPT ![w] = << >>]
    /\ observed' = [observed EXCEPT ![w] = << >>]
    /\ lateStart' = [lateStart EXCEPT ![w] = FALSE]
    /\ UNCHANGED <<cluster, triggers, faults, ctxDone, metrics, started, created,
                   raced, faulted>>

Next ==
    \/ \E id \in Ids : Trigger(id)
    \/ \E w \in Workers, id \in Ids : StartPass(w, id)
    \/ \E w \in Workers : GetMyApp(w)
    \/ \E w \in Workers : GetDeployment(w)
    \/ \E w \in Workers : CreateDeployment(w)
    \/ \E w \in Workers : GetPDB(w)
    \/ \E w \in Workers : CreatePDB(w)
    \/ \E w \in Workers : Return(w)

Spec == Init /\ [][Next]_vars

\* The client injects no transient failure; every worker makes progress
\* and the trigger queue hands out every identity it holds.
LiveInit == InitWith(0)

Fairness ==
    \A w \in Workers :
        /\ WF_vars(GetMyApp(w))
        /\ WF_vars(GetDeployment(w))
        /\ WF_vars(CreateDeployment(w))
        /\ WF_vars(GetPDB(w))
        /\ WF_vars(CreatePDB(w))
        /\ WF_vars(Return(w))
        /\ \A id \in Ids : SF_vars(StartPass(w, id))

LiveSpec == LiveInit /\ [][Next]_vars /\ Fairness

\* ---- the surroundings of the engine beyond plain triggers ----

\* The passes of a worker run as one sequence of steps.
WorkerStep(w) ==
    \/ \E id \in Ids : StartPass(w, id)
    \/ GetMyApp(w)
    \/ GetDeployment(w)
    \/ CreateDeployment(w)
    \/ GetPDB(w)
    \/ CreatePDB(w)
    \/ Return(w)

\* The context given to Start and handed on to every pass is cancelled:
\* the manager starts no further pass, the passes in flight run on.
Cancel ==
    /\ ~ctxDone
    /\ ctxDone' = TRUE
    /\ UNCHANGED <<cluster, queue, triggers, faults, metrics, pc, req, myApp,
                   obj, result, calls, observed, lateStart, started, created,
                   raced, faulted, last>>

CancelNext == Next \/ Cancel

CancelSpec == Init /\ [][CancelNext]_vars

\* The values a user may give to the spec of a MyApp.
SpecChoices == {MyAppSpecs[i] : i \in Ids}

\* A user edits the spec of a stored MyApp; For(&api.MyApp{}) turns the
\* update event into a trigger for that identity.
UpdateMyApp(id) ==
    /\ triggers < MaxTriggers
    /\ myApps[id] # NoObj
    /\ \E sp \in SpecChoices \ {myApps[id].spec} :
            myApps' = [myApps EXCEPT ![id] = MyAppObj(id, sp)]
    /\ triggers' = triggers + 1
    /\ queue' = queue \cup {id}
    /\ UNCHANGED <<deployments, pdbs, faults, ctxDone, metrics, pc, req, myApp,
                   obj, result, calls, observed, lateStart, started, created,
                   raced, faulted, last>>

DriftNext == Next \/ \E id \in Ids : UpdateMyApp(id)

\* Drift is studied with a client that injects no transient failure.
DriftSpec == LiveInit /\ [][DriftNext]_vars

\* The child kinds registered with Owns(): an event on a child of such a
\* kind is mapped to a trigger for the MyApp named in its owner reference.
Owns == {"Deployment"}

Store(kind) == IF kind = "Deployment" THEN deployments ELSE pdbs

\* A user deletes a child out-of-band.
DeleteChild(kind, id) ==
    /\ triggers < MaxTriggers
    /\ Store(kind)[id] # NoObj
    /\ IF kind = "Deployment"
          THEN deployments' = [deployments EXCEPT ![id] = NoObj] /\ UNCHANGED pdbs
          ELSE pdbs' = [pdbs EXCEPT ![id] = NoObj] /\ UNCHANGED deployments
    /\ triggers' = triggers + 1
    /\ queue' = (IF kind \in Owns /\ Store(kind)[id].owner # NoObj
                   THEN queue \cup {Store(kind)[id].owner.name}
                   ELSE queue)
    /\ UNCHANGED <<myApps, faults, ctxDone, metrics, pc, req, myApp, obj, result,
                   calls, observed, lateStart, started, created, raced, faulted,
                   last>>

DeleteNext == Next \/ \E kind \in Kinds, id \in Ids : DeleteChild(kind, id)

DeleteSpec == Init /\ [][DeleteNext]_vars

InFlight(id) == \E w \in Workers : pc[w] # "idle" /\ req[w] = id
Pending(id) == id \in queue \/ InFlight(id)

BothChildren(id) == deployments[id] # NoObj /\ pdbs[id] # NoObj

\* the identity is at rest: both children stored, each created by exactly
\* one pass, the last pass returned synced and nothing is left to run
Settled(id) ==
    /\ BothChildren(id)
    /\ created[<<id, "Deployment">>] = 1
    /\ created[<<id, "PodDisruptionBudget">>] = 1
    /\ last[id] = "Synced"
    /\ ~Pending(id)

\* C1: without transient client failures, from "MyApp stored, no child
\* stored" the re-run passes of an identity (requeue and errors honoured)
\* come to rest at the synced outcome after exactly one successful create
\* per child, and a pass begun after a synced return is synced again,
\* whatever the interleaving of the passes of the two workers.
C1_LaterPassesSynced ==
    \A w \in Workers :
        pc[w] = "done" /\ lateStart[w] =>
            /\ result[w].outcome = "Synced"
            /\ result[w].requeue = FALSE
            /\ result[w].err = NoErr
            /\ created[<<req[w], "Deployment">>] = 1
            /\ created[<<req[w], "PodDisruptionBudget">>] = 1

C1_Convergence ==
    /\ []C1_LaterPassesSynced
    /\ \A id \in Ids : (myApps[id] # NoObj /\ Pending(id)) ~> Settled(id)

C1_Witness ==
    \E id \in Ids :
        /\ Settled(id)
        /\ raced[id]
        /\ started[id] >= 4

\* ------------------------------------------------- vocabulary of the claims
Done(w) == pc[w] = "done"

CallIdx(w) == DOMAIN calls[w]

CreateCalls(w) == {i \in CallIdx(w) : calls[w][i].op = "Create"}

\* the pass read the child of the kind and got the error e
ReadChild(w, kind, e) ==
    \E i \in CallIdx(w) :
        calls[w][i].op = "Get" /\ calls[w][i].kind = kind /\ calls[w][i].err = e

\* the pass read its MyApp as absent
MyAppAbsent(w) ==
    calls[w] # << >> /\ calls[w][1].kind = "MyApp" /\ calls[w][1].err = ErrNotFound

\* the pass submitted a create that the cluster accepted
CreatedChild(w) == \E i \in CreateCalls(w) : calls[w][i].err = NoErr

\* the pass met a failure of the client or of the owner-reference attach
FailureOf(w) ==
    {calls[w][i].err : i \in {k \in CallIdx(w) : calls[w][k].err = ErrTransient}}
        \cup (IF result[w].outcome = "OwnerRefFailed" THEN {ErrOwnerRef} ELSE {})

\* C2 (as claimed): a pass whose create is answered "already exists" (it
\* lost the race for a child it had read as absent) returns no error, and
\* the child was created exactly once.
C2_RaceIsNotFailure ==
    \A w \in Workers :
        Done(w) /\ (\E i \in CreateCalls(w) : calls[w][i].err = ErrAlreadyExists) =>
            /\ result[w].err = NoErr
            /\ \A i \in CreateCalls(w) :
                   created[<<calls[w][i].name, calls[w][i].kind>>] = 1

\* C3 (as claimed): a pass that reads its MyApp as absent returns
\* requeue=false with a nil error and submits no create.
C3_AbsentMyAppIsNotAnError ==
    \A w \in Workers :
        Done(w) /\ MyAppAbsent(w) =>
            /\ result[w].requeue = FALSE
            /\ result[w].err = NoErr
            /\ CreateCalls(w) = {}

\* C4 (as claimed): once the read of a child fails with an error other
\* than not-found, the pass has returned that error and has submitted no
\* create for any child.
C4_ReadFailureStopsThePass ==
    \A w \in Workers :
        (\E k \in Kinds : ReadChild(w, k, ErrTransient)) =>
            /\ pc[w] = "done"
            /\ result[w].err = ErrTransient
            /\ CreateCalls(w) = {}

\* C5 (as claimed): the returned pair follows the outcome: requeue=true and
\* nil error exactly when the pass created a child; requeue=false and nil
\* error when both children were found or the MyApp was absent;
\* requeue=false and error=cause when the pass failed; never requeue=true
\* together with an error.
C5_ResultFollowsOutcome ==
    \A w \in Workers :
        Done(w) =>
            /\ (result[w].requeue /\ result[w].err = NoErr) <=> CreatedChild(w)
            /\ ~(result[w].requeue /\ result[w].err # NoErr)
            /\ MyAppAbsent(w) => (~result[w].requeue /\ result[w].err = NoErr)
            /\ (ReadChild(w, "Deployment", NoErr) /\ ReadChild(w, "PodDisruptionBudget", NoErr))
                   => (~result[w].requeue /\ result[w].err = NoErr)
            /\ FailureOf(w) # {} => (~result[w].requeue /\ result[w].err \in FailureOf(w))

\* the client calls of a pass, as <<operation, kind, error>> triples
CallTrace(w) ==
    [i \in CallIdx(w) |-> <<calls[w][i].op, calls[w][i].kind, calls[w][i].err>>]

SameIdentity(child, owner) ==
    child # NoObj /\ child.namespace = owner.namespace /\ child.name = owner.name

\* C6: with one pass at a time, no failure and no child at first, the
\* first pass of a stored MyApp creates the Deployment (same namespace and
\* name) and asks for a requeue, the second finds the Deployment, creates
\* the PodDisruptionBudget (same namespace and name) and asks for a
\* requeue, the third finds both, creates nothing and asks for no requeue.
C6_ThreePasses ==
    \A w \in Workers :
        LET id == req[w] IN
        (Done(w) /\ ~raced[id] /\ ~faulted[id] /\ myApps[id] # NoObj) =>
            /\ started[id] = 1 =>
                /\ CallTrace(w) = << <<"Get", "MyApp", NoErr>>,
                                     <<"Get", "Deployment", ErrNotFound>>,
                                     <<"Create", "Deployment", NoErr>> >>
                /\ SameIdentity(deployments[id], myApps[id])
                /\ pdbs[id] = NoObj
                /\ result[w].requeue /\ result[w].err = NoErr
            /\ started[id] = 2 =>
                /\ CallTrace(w) = << <<"Get", "MyApp", NoErr>>,
                                     <<"Get", "Deployment", NoErr>>,
                                     <<"Get", "PodDisruptionBudget", ErrNotFound>>,
                                     <<"Create", "PodDisruptionBudget", NoErr>> >>
                /\ SameIdentity(deployments[id], myApps[id])
                /\ SameIdentity(pdbs[id], myApps[id])
                /\ result[w].requeue /\ result[w].err = NoErr
            /\ started[id] = 3 =>
                /\ CallTrace(w) = << <<"Get", "MyApp", NoErr>>,
                                     <<"Get", "Deployment", NoErr>>,
                                     <<"Get", "PodDisruptionBudget", NoErr>> >>
                /\ BothChildren(id)
                /\ ~result[w].requeue /\ result[w].err = NoErr

C6_Witness ==
    \E w \in Workers :
        /\ Done(w) /\ ~raced[req[w]] /\ ~faulted[req[w]] /\ myApps[req[w]] # NoObj
        /\ started[req[w]] = 3
        /\ created[<<req[w], "Deployment">>] = 1
        /\ created[<<req[w], "PodDisruptionBudget">>] = 1
        /\ result[w].outcome = "Synced"

\* C7 (as claimed): a pass that has returned has recorded exactly one
\* duration observation, under one of the three labels.
C7_OneObservationPerPass ==
    \A w \in Workers :
        Done(w) => Len(observed[w]) = 1 /\ observed[w][1] \in Labels

\* C8: the attempt counter of an identity equals the number of passes begun
\* for it, passes in flight and passes of every outcome included: each pass
\* adds exactly 1 to its own identity's counter before its first client
\* call and nothing to any other counter.
C8_AttemptCounter ==
    /\ \A id \in Ids : myAppReconcileCounter[id] = started[id]
    /\ \A w \in Workers : pc[w] # "idle" => myAppReconcileCounter[req[w]] >= 1

C8_Witness ==
    \E w \in Workers :
        /\ Done(w)
        /\ result[w].err # NoErr
        /\ myAppReconcileCounter[req[w]] = 2
        /\ \E other \in Ids \ {req[w]} : myAppReconcileCounter[other] = 0

\* C9 (as claimed): the observation of a pass is "success" when it created
\* a child or found both children, "error" when it failed, and "skipped"
\* is never recorded.
C9_LabelFollowsOutcome ==
    /\ reconcileDuration[reconcilationSkipped] = 0
    /\ \A w \in Workers :
        Done(w) =>
            /\ result[w].outcome \in {"CreatedDeployment", "CreatedPDB", "Synced"}
                   => observed[w] = <<reconcilationSuccess>>
            /\ result[w].err # NoErr => observed[w] = <<reconcilationError>>

OwnerRef(o) == [kind |-> o.kind, namespace |-> o.namespace, name |-> o.name]

\* stored children of the kind that are owned by the MyApp of the identity
ChildrenOf(store, id) ==
    {k \in Ids : store[k] # NoObj /\ store[k].owner = OwnerRef(MyAppObj(id, << >>))}

\* C10: every identity has at most one Deployment and at most one
\* PodDisruptionBudget in the cluster, and (no child being deleted) at most
\* one create per identity and kind has succeeded, however the passes race.
C10_CreateAtMostOnce ==
    \A id \in Ids :
        /\ Cardinality(ChildrenOf(deployments, id)) <= 1
        /\ Cardinality(ChildrenOf(pdbs, id)) <= 1
        /\ \A k \in Kinds : created[<<id, k>>] <= 1
        /\ created[<<id, "Deployment">>] = (IF deployments[id] = NoObj THEN 0 ELSE 1)
        /\ created[<<id, "PodDisruptionBudget">>] = (IF pdbs[id] = NoObj THEN 0 ELSE 1)

C10_Witness ==
    \E w \in Workers :
        /\ Done(w)
        /\ \E i \in CreateCalls(w) : calls[w][i].err = ErrAlreadyExists
        /\ raced[req[w]]
        /\ created[<<req[w], "Deployment">>] = 1

\* the owner reference that names the MyApp of the identity
OwnerOf(id) == OwnerRef(MyAppObj(id, << >>))

\* C11: every child a pass submits for creation carries, when the create
\* is called, the owner reference of exactly the MyApp the pass was
\* triggered for (so does every child stored by a pass); and a pass whose
\* owner-reference attach fails submits no create and returns that error.
C11_OwnerReference ==
    /\ \A w \in Workers :
        /\ pc[w] \in {"createDeployment", "createPDB"} =>
                /\ obj[w].owner = OwnerOf(req[w])
                /\ obj[w].name = req[w]
        /\ result[w].outcome = "OwnerRefFailed" =>
                /\ CreateCalls(w) = {}
                /\ result[w].err = ErrOwnerRef
                /\ ~result[w].requeue
    /\ \A id \in Ids :
        /\ deployments[id] # NoObj => deployments[id].owner = OwnerOf(id)
        /\ pdbs[id] # NoObj => pdbs[id].owner = OwnerOf(id)

C11_Witness ==
    \E w \in Workers :
        /\ Done(w)
        /\ result[w].outcome = "OwnerRefFailed"
        /\ deployments[req[w]] # NoObj
        /\ pdbs[req[w]] = NoObj

\* the client calls of the pass that were refused for a cancelled context
Refused(w) == {i \in CallIdx(w) : calls[w][i].err = ErrCancelled}

\* C12 (as claimed): a pass that meets the cancellation at a client call
\* stops there: the refused call is its last call, no further read or
\* create follows, and the pass returns the cancellation failure.
C12_CancelStopsThePass ==
    \A w \in Workers :
        \A i \in Refused(w) :
            /\ i = Len(calls[w])
            /\ Done(w)
            /\ result[w].err = ErrCancelled

\* C14 (as claimed): a pass submits a PodDisruptionBudget create only after
\* its own read of the Deployment returned the Deployment as present; hence
\* (no child being deleted) wherever the PodDisruptionBudget of an identity
\* is stored, its Deployment is stored too.
C14_DeploymentBeforePDB ==
    /\ \A w \in Workers :
        (\E i \in CreateCalls(w) : calls[w][i].kind = "PodDisruptionBudget")
            => ReadChild(w, "Deployment", NoErr)
    /\ \A id \in Ids : pdbs[id] # NoObj => deployments[id] # NoObj

\* C15: a pass submits at most one create, and the create is its last
\* client call: after a Deployment create, accepted or failed, the pass
\* returns without reading or creating the PodDisruptionBudget.
C15_OneCreatePerPass ==
    \A w \in Workers :
        /\ Cardinality(CreateCalls(w)) <= 1
        /\ \A i \in CreateCalls(w) :
            /\ i = Len(calls[w])
            /\ Done(w)
            /\ calls[w][i].kind = "Deployment" =>
                    \A k \in CallIdx(w) : calls[w][k].kind # "PodDisruptionBudget"

C15_Witness ==
    \E w \in Workers :
        /\ Done(w)
        /\ result[w].outcome = "CreatedDeployment"
        /\ pdbs[req[w]] = NoObj
        /\ \E v \in Workers :
            Done(v) /\ result[v].outcome = "CreateDeploymentFailed"

\* the stored object is left as it is by the step
Kept(store, id) == store[id] # NoObj => store[id]' = store[id]

\* the Deployment of the identity was created for another spec than the
\* MyApp holds now
Drifted(id) ==
    /\ myApps[id] # NoObj
    /\ deployments[id] # NoObj
    /\ deployments[id].replicas # myApps[id].spec.replicas
    /\ deployments[id].container.image # myApps[id].spec.image

\* C16: no step of a pass updates or deletes an object: the MyApps and
\* every child already stored are left as they are, also when the spec of
\* the MyApp differs from what its Deployment was created with; the only
\* write of a pass is the create of a child that was absent.
C16_NoUpdateNoDelete ==
    [][pc' # pc =>
        /\ myApps' = myApps
        /\ \A id \in Ids : Kept(deployments, id) /\ Kept(pdbs, id)]_vars

C16_Witness ==
    \E w \in Workers :
        /\ Done(w)
        /\ result[w].outcome = "Synced"
        /\ Drifted(req[w])
        /\ myApp[w] = myApps[req[w]]

\* the identity the step of the worker belongs to
PassOf(w) == IF req[w] # NoReq THEN req[w] ELSE req[w]'

\* C17: a pass for an identity reads and creates only objects of that
\* name (in its namespace), and none of its steps, failed or not, changes
\* the children, the attempt count or the reconcile outcome of another
\* identity, nor the pass of another worker, however the passes interleave.
C17_OtherIdentitiesUntouched ==
    [][\A w \in Workers : pc[w]' # pc[w] =>
        /\ \A i \in DOMAIN calls[w]' : calls[w][i]'.name = PassOf(w)
        /\ \A j \in Ids \ {PassOf(w)} :
            /\ deployments[j]' = deployments[j]
            /\ pdbs[j]' = pdbs[j]
            /\ myAppReconcileCounter[j]' = myAppReconcileCounter[j]
            /\ last[j]' = last[j]
            /\ (j \in queue') = (j \in queue)
        /\ \A v \in Workers \ {w} :
            /\ result[v]' = result[v]
            /\ calls[v]' = calls[v]
            /\ observed[v]' = observed[v]]_vars

C17_Witness ==
    \E w, v \in Workers :
        /\ Done(w) /\ Done(v)
        /\ req[w] # req[v]
        /\ result[w].outcome = "CreatedDeployment"
        /\ result[v].outcome = "CreateDeploymentFailed"
        /\ deployments[req[v]] = NoObj

\* the errors of the creates of the pass other than "already exists"
CreateFailures(w) ==
    {calls[w][i].err : i \in CreateCalls(w)} \ {NoErr, ErrAlreadyExists}

\* the pass has dealt with the child of the kind it read as absent
Followed(w, kind, step) ==
    ReadChild(w, kind, ErrNotFound) =>
        \/ pc[w] = step
        \/ \E i \in CreateCalls(w) : calls[w][i].kind = kind
        \/ result[w].outcome = "OwnerRefFailed"

\* the last pass returned for the identity failed at a create
CreateFailedLast(id) == last[id] \in {"CreateDeploymentFailed", "CreatePDBFailed"}

\* C18: a create that fails with an error other than "already exists"
\* makes the pass return that error with requeue = false, and the pass adds
\* no child; after its return the identity is queued or in a pass again,
\* and a pass that reads a child as absent goes on to its create whatever
\* earlier passes met (no failure is remembered across passes).
C18_FailedCreateIsRetried ==
    /\ \A w \in Workers :
        /\ \A e \in CreateFailures(w) :
            /\ Done(w)
            /\ result[w].err = e
            /\ ~result[w].requeue
            /\ ~CreatedChild(w)
        /\ Followed(w, "Deployment", "createDeployment")
        /\ Followed(w, "PodDisruptionBudget", "createPDB")
    /\ \A id \in Ids : CreateFailedLast(id) => (id \in queue \/ InFlight(id))

C18_Witness ==
    \E w \in Workers :
        /\ Done(w)
        /\ result[w].outcome = "CreatedDeployment"
        /\ last[req[w]] = "CreateDeploymentFailed"
        /\ started[req[w]] >= 2

\* the step deletes the stored child of the kind and identity
Deleted(kind, id) == Store(kind)[id] # NoObj /\ Store(kind)[id]' = NoObj

\* C19 (as claimed): the deletion of an owned child of either kind, while
\* its MyApp is stored and no pass for it is in flight, delivers a trigger
\* for the owning identity (so that a pass re-creates the child).
C19_ChildEventTriggers ==
    [][\A kind \in Kinds, id \in Ids :
        (Deleted(kind, id) /\ myApps[id] # NoObj /\ ~InFlight(id))
            => id \in queue']_vars

\* the children a pass is about to submit and the children stored
Built(kind) ==
    {obj[w] : w \in {v \in Workers : obj[v] # NoObj /\ obj[v].kind = kind}}
        \cup {Store(kind)[id] : id \in {k \in Ids : Store(kind)[k] # NoObj}}

\* C20: the selector of every Deployment built by the engine, the labels
\* of its pod template and the selector of every PodDisruptionBudget built
\* by the engine are the one-entry map {"app": name of the MyApp}; hence
\* where both children of an identity are stored their selectors are equal.
C20_SelectorsAgree ==
    /\ \A d \in Built("Deployment") :
        /\ d.selector = [app |-> d.owner.name]
        /\ d.templateLabels = [app |-> d.owner.name]
    /\ \A p \in Built("PodDisruptionBudget") :
        p.selector = [app |-> p.owner.name]
    /\ \A id \in Ids :
        (deployments[id] # NoObj /\ pdbs[id] # NoObj) =>
            /\ deployments[id].selector = pdbs[id].selector
            /\ deployments[id].templateLabels = pdbs[id].selector

C20_Witness ==
    \E id \in Ids :
        /\ deployments[id] # NoObj
        /\ pdbs[id] # NoObj
        /\ created[<<id, "Deployment">>] = 1
        /\ created[<<id, "PodDisruptionBudget">>] = 1
        /\ myApps[id] # NoObj

TypeOK ==
    /\ faults \in 0..MaxFaults
    /\ ctxDone \in BOOLEAN
    /\ \A w \in Workers : pc[w] \in {"idle", "getMyApp", "getDeployment",
                                     "createDeployment", "getPDB", "createPDB", "done"}
====
